---- MODULE Spec2Model ----
(***************************************************************************)
(* The YouTube trending ETL notebook (notebooks/01_etl_youtube_trending)   *)
(* as a state machine.  One run executes the notebook's statements top to  *)
(* bottom; the files under data/raw/ and processed/ outlive a run, the     *)
(* DataFrame df is rebuilt by every run.                                   *)
(*                                                                         *)
(* Text (titles, date strings) is a sequence of one-character strings, so  *)
(* that trimming, splitting and parsing are computed, not assumed.         *)
(* A nullable cell is NaN (the empty tuple) or Some(v) (the tuple <<v>>).  *)
(***************************************************************************)
EXTENDS Integers, Sequences, FiniteSets, TLC

(* ------------------------------ bounds -------------------------------- *)

\* Longest raw table the dataset publisher serves in its first version.
MaxRows == 2

\* Number of dataset versions the publisher releases (kagglehub versions/N).
MaxVersion == 2

(* --------------------------- nullable cells --------------------------- *)

NaN == <<>>

Some(v) == <<v>>

IsNa(x) == x = NaN

Val(x) == x[1]

(* ------------------------------- text --------------------------------- *)

Whitespace == {" ", "\t", "\n"}

RECURSIVE LStrip(_)
LStrip(s) ==
    IF s = <<>> THEN s
    ELSE IF Head(s) \in Whitespace THEN LStrip(Tail(s)) ELSE s

RECURSIVE RStrip(_)
RStrip(s) ==
    IF s = <<>> THEN s
    ELSE IF s[Len(s)] \in Whitespace THEN RStrip(SubSeq(s, 1, Len(s) - 1)) ELSE s

\* str.strip(): leading and trailing whitespace removed.
Strip(s) == RStrip(LStrip(s))

\* Series.str.strip() / .str.len() ...: NaN cells stay NaN.
StrStrip(cell) == IF IsNa(cell) THEN NaN ELSE Some(Strip(Val(cell)))

\* fillna(""): a NaN cell becomes the empty string.
FillNaEmpty(cell) == IF IsNa(cell) THEN Some(<<>>) ELSE cell

\* The parts of s between occurrences of sep (str.split(sep)).
RECURSIVE SplitOn(_, _)
SplitOn(s, sep) ==
    IF \A i \in 1..Len(s) : s[i] # sep THEN <<s>>
    ELSE LET k == CHOOSE i \in 1..Len(s) :
                      s[i] = sep /\ \A j \in 1..(i - 1) : s[j] # sep
         IN <<SubSeq(s, 1, k - 1)>> \o SplitOn(SubSeq(s, k + 1, Len(s)), sep)

\* str.split() with no separator: the maximal runs of non-whitespace.
RECURSIVE SplitWords(_)
SplitWords(s) ==
    LET t == LStrip(s) IN
    IF t = <<>> THEN <<>>
    ELSE LET stop == IF \E i \in 1..Len(t) : t[i] \in Whitespace
                     THEN CHOOSE i \in 1..Len(t) :
                              t[i] \in Whitespace
                                  /\ \A j \in 1..(i - 1) : t[j] \notin Whitespace
                     ELSE Len(t) + 1
         IN <<SubSeq(t, 1, stop - 1)>> \o SplitWords(SubSeq(t, stop, Len(t)))

Digits == {"0", "1", "2", "3", "4", "5", "6", "7", "8", "9"}

DigitVal(c) ==
    CASE c = "0" -> 0 [] c = "1" -> 1 [] c = "2" -> 2 [] c = "3" -> 3
      [] c = "4" -> 4 [] c = "5" -> 5 [] c = "6" -> 6 [] c = "7" -> 7
      [] c = "8" -> 8 [] c = "9" -> 9

IsNumber(s) == s # <<>> /\ \A i \in 1..Len(s) : s[i] \in Digits

RECURSIVE ToInt(_)
ToInt(s) ==
    IF s = <<>> THEN 0
    ELSE 10 * ToInt(SubSeq(s, 1, Len(s) - 1)) + DigitVal(s[Len(s)])

(* ------------------------------ dates --------------------------------- *)

IsLeap(y) == (y % 4 = 0 /\ y % 100 # 0) \/ y % 400 = 0

DaysInMonth(y, m) ==
    CASE m \in {1, 3, 5, 7, 8, 10, 12} -> 31
      [] m \in {4, 6, 9, 11} -> 30
      [] m = 2 -> IF IsLeap(y) THEN 29 ELSE 28

RECURSIVE DaysBeforeMonth(_, _)
DaysBeforeMonth(y, m) ==
    IF m = 1 THEN 0 ELSE DaysBeforeMonth(y, m - 1) + DaysInMonth(y, m - 1)

\* Proleptic Gregorian ordinal of a calendar day (0001-01-01 is day 1).
Ordinal(y, m, d) ==
    365 * (y - 1) + ((y - 1) \div 4) - ((y - 1) \div 100) + ((y - 1) \div 400)
        + DaysBeforeMonth(y, m) + d

DayNames ==
    <<"Monday", "Tuesday", "Wednesday", "Thursday", "Friday", "Saturday", "Sunday">>

\* Timestamp.day_name(): ordinal 1 (0001-01-01) is a Monday.
DayName(ordinal) == DayNames[((ordinal + 6) % 7) + 1]

\* One date string "Y-M-D" as pd.to_datetime(errors="coerce") reads it: the
\* three numeric fields, month and day with one or two digits; anything else
\* is NaT.  The value is the calendar day, whatever the spelling.  The date
\* strings served here are all of this one layout (the dataset's), for which
\* reading each string on its own and reading the column under the layout of
\* its first string give the same cells.
ParseDate(text) ==
    LET parts == SplitOn(text, "-") IN
    IF Len(parts) # 3 \/ \E i \in 1..3 : ~IsNumber(parts[i]) THEN NaN
    ELSE IF Len(parts[1]) # 4 \/ Len(parts[2]) > 2 \/ Len(parts[3]) > 2 THEN NaN
    ELSE LET y == ToInt(parts[1])
             m == ToInt(parts[2])
             d == ToInt(parts[3])
         IN IF y < 1 \/ m \notin 1..12 THEN NaN
            ELSE IF d \notin 1..DaysInMonth(y, m) THEN NaN
            ELSE Some([day |-> Ordinal(y, m, d), secs |-> 0])

\* A clock "HH:MM:SS" followed by the UTC offset "+00:00".
ParseClock(text) ==
    LET halves == SplitOn(text, "+") IN
    IF Len(halves) # 2 \/ halves[2] # <<"0", "0", ":", "0", "0">> THEN NaN
    ELSE LET f == SplitOn(halves[1], ":") IN
         IF Len(f) # 3 \/ \E i \in 1..3 : ~IsNumber(f[i]) \/ Len(f[i]) # 2 THEN NaN
         ELSE LET h == ToInt(f[1])
                  mi == ToInt(f[2])
                  s == ToInt(f[3])
              IN IF h > 23 \/ mi > 59 \/ s > 59 THEN NaN
                 ELSE Some(3600 * h + 60 * mi + s)

\* One publish_date string "Y-M-D HH:MM:SS+00:00" (or a bare date) as
\* pd.to_datetime(utc=True, errors="coerce") reads it.
ParseTimestamp(text) ==
    LET parts == SplitOn(text, " ") IN
    IF Len(parts) = 1 THEN ParseDate(parts[1])
    ELSE IF Len(parts) # 2 THEN NaN
    ELSE LET date == ParseDate(parts[1])
             clock == ParseClock(parts[2])
         IN IF IsNa(date) \/ IsNa(clock) THEN NaN
            ELSE Some([day |-> Val(date).day, secs |-> Val(clock)])

\* Series-level to_datetime: NaN cells stay NaT.
ToDatetime(cell) == IF IsNa(cell) THEN NaN ELSE ParseDate(Val(cell))

ToDatetimeUtc(cell) == IF IsNa(cell) THEN NaN ELSE ParseTimestamp(Val(cell))

DaysBetweenTruncated(snapshot, publish) ==
    LET diff == (snapshot.day - publish.day) * 86400 + (snapshot.secs - publish.secs)
    IN IF diff >= 0 THEN diff \div 86400 ELSE -((-diff) \div 86400)

\* (snapshot - publish).dt.days: Timedelta.days is the floor of the difference.
DaysBetween(snapshot, publish) ==
    LET diff == (snapshot.day - publish.day) * 86400 + (snapshot.secs - publish.secs)
    IN IF diff >= 0 THEN diff \div 86400 ELSE -((-diff + 86399) \div 86400)

(* --------------------------- DataFrame basics -------------------------- *)

\* The rows of s at the positions in P, in their original order.
RECURSIVE KeepAt(_, _)
KeepAt(s, P) ==
    IF s = <<>> THEN <<>>
    ELSE LET n == Len(s)
             front == KeepAt(SubSeq(s, 1, n - 1), P)
         IN IF n \in P THEN Append(front, s[n]) ELSE front

\* A row without its index label: the columns only.
Unindexed(r) == [c \in (DOMAIN r) \ {"index"} |-> r[c]]

\* pd.read_csv: the rows of the file under a fresh RangeIndex.
ReadCsv(file) == [i \in 1..Len(file.rows) |-> file.rows[i] @@ [index |-> i]]

\* df.drop_duplicates(): of rows equal in every column the first stays.
DropDuplicates(frame) ==
    KeepAt(frame, {i \in 1..Len(frame) :
                      \A j \in 1..(i - 1) : Unindexed(frame[j]) # Unindexed(frame[i])})

SubsetKey(r) == <<r.video_id, r.snapshot_date>>

DropDuplicatesSubsetKeepLast(frame) ==
    KeepAt(frame, {i \in 1..Len(frame) :
                      \A j \in (i + 1)..Len(frame) : SubsetKey(frame[j]) # SubsetKey(frame[i])})

DropDuplicatesSubsetAfterFilter(frame) ==
    LET valid == KeepAt(frame, {i \in 1..Len(frame) :
                                  /\ frame[i].title # NaN
                                  /\ frame[i].country # NaN
                                  /\ frame[i].view_count \notin {NaN, Some(0)}})
    IN KeepAt(valid, {i \in 1..Len(valid) :
                         \A j \in 1..(i - 1) : SubsetKey(valid[j]) # SubsetKey(valid[i])})

\* df.drop_duplicates(subset=["video_id", "snapshot_date"]): keep="first".
DropDuplicatesSubset(frame) ==
    KeepAt(frame, {i \in 1..Len(frame) :
                      \A j \in 1..(i - 1) : SubsetKey(frame[j]) # SubsetKey(frame[i])})

\* df.dropna(subset=cols): rows with a NaN in any of cols go.
Dropna(frame, cols) ==
    KeepAt(frame, {i \in 1..Len(frame) : \A c \in cols : ~IsNa(frame[i][c])})

RequiredColumns == {"title", "country", "view_count"}

DropnaRequired(frame) == Dropna(frame, RequiredColumns)

\* df.rename(columns={"langauge": "language"}): absent keys are ignored.
RenameColumns(cols) ==
    IF "langauge" \in cols THEN (cols \ {"langauge"}) \cup {"language"} ELSE cols

StripRow(r) ==
    [r EXCEPT !.title = StrStrip(@),
              !.description = StrStrip(FillNaEmpty(@)),
              !.channel_name = StrStrip(@)]

ParseRow(r) ==
    [r EXCEPT !.snapshot_date = ToDatetime(@),
              !.publish_date = ToDatetimeUtc(@)]

DropnaDates(frame) == Dropna(frame, {"snapshot_date", "publish_date"})

(* --------------------------- title features --------------------------- *)

\* emoji.EMOJI_DATA, cut down to the code points the titles here use.
EmojiData == {"U+1F62E", "U+1F525"}

Punctuation == {"?", "!", ".", ","}

RECURSIVE Without(_, _)
Without(s, chars) ==
    IF s = <<>> THEN <<>>
    ELSE IF Head(s) \in chars THEN Without(Tail(s), chars)
    ELSE <<Head(s)>> \o Without(Tail(s), chars)

\* The scorer's lexicon: polarity of a word in hundredths.
LexiconScore(word) ==
    CASE word = <<"g", "o", "o", "d">> -> 70
      [] word = <<"b", "a", "d">> -> -70
      [] OTHER -> 0

RECURSIVE SumScores(_)
SumScores(words) ==
    IF words = <<>> THEN 0
    ELSE LexiconScore(Without(Head(words), Punctuation)) + SumScores(Tail(words))

\* TextBlob(x).sentiment.polarity in hundredths: the mean score of the words
\* the lexicon knows, 0 for a text with none.
Polarity(text) ==
    LET words == SplitWords(text)
        known == {i \in 1..Len(words) :
                     LexiconScore(Without(words[i], Punctuation)) # 0}
    IN IF known = {} THEN 0 ELSE SumScores(words) \div Cardinality(known)

TitleFeatures(r) ==
    LET t == Val(r.title) IN
    r @@ [title_length_chars |-> Len(t),
          title_word_count |-> Len(SplitWords(t)),
          title_has_emoji |-> \E i \in 1..Len(t) : t[i] \in EmojiData,
          title_has_question |-> \E i \in 1..Len(t) : t[i] = "?",
          title_sentiment |-> Polarity(t)]

TitleColumns ==
    {"title_length_chars", "title_word_count", "title_has_emoji",
     "title_has_question", "title_sentiment"}

(* ------------------------- engagement ratios -------------------------- *)

\* Series.replace(0, np.nan)
ReplaceZero(cell) == IF cell = Some(0) THEN NaN ELSE cell

ReplaceZerosLikesKept(r) ==
    [r EXCEPT !.comment_count = ReplaceZero(@),
              !.view_count = ReplaceZero(@)]

ReplaceZerosViewsKept(r) ==
    [r EXCEPT !.like_count = ReplaceZero(@),
              !.comment_count = ReplaceZero(@)]

ReplaceZeros(r) ==
    [r EXCEPT !.like_count = ReplaceZero(@),
              !.comment_count = ReplaceZero(@),
              !.view_count = ReplaceZero(@)]

DivideSwapped(a, b) ==
    IF IsNa(a) \/ IsNa(b) THEN NaN ELSE Some([num |-> Val(b), den |-> Val(a)])

\* Series / Series: NaN when either operand is NaN, else the quotient, kept
\* exact as numerator over denominator.
Divide(a, b) ==
    IF IsNa(a) \/ IsNa(b) THEN NaN ELSE Some([num |-> Val(a), den |-> Val(b)])

Ratios(r) ==
    r @@ [like_ratio |-> Divide(r.like_count, r.view_count),
          comment_ratio |-> Divide(r.comment_count, r.view_count)]

RatioColumns == {"like_ratio", "comment_ratio"}

DropnaViewsAndLikes(frame) == Dropna(frame, {"view_count", "like_count"})

DropnaViews(frame) == Dropna(frame, {"view_count"})

(* -------------------------- temporal features ------------------------- *)

\* tz_localize(None) drops the UTC marker and keeps the wall time; the
\* second to_datetime of an already parsed column changes nothing.
TemporalFeatures(r) ==
    r @@ [days_since_publish |->
              DaysBetween(Val(r.snapshot_date), Val(r.publish_date)),
          publish_day_of_week |-> DayName(Val(r.publish_date).day)]

TemporalColumns == {"days_since_publish", "publish_day_of_week"}

(* ------------------------------- export ------------------------------- *)

TextColumns == {"title", "channel_name", "description"}

\* One cell as to_csv writes it and read_csv reads it back: NaN and the empty
\* string are both the empty field.
CsvCell(c, cell) == IF c \in TextColumns /\ cell = Some(<<>>) THEN NaN ELSE cell

CsvRow(r) == [c \in (DOMAIN r) \ {"index"} |-> CsvCell(c, r[c])]

\* df.to_csv(path, index=False): the rows in frame order, without the index.
ToCsv(frame) == [i \in 1..Len(frame) |-> CsvRow(frame[i])]

NoRows == <<>>

WriteCsvAppend(old, frame) == old \o ToCsv(frame)

\* to_csv opens the path with mode "w": what the file held before is gone.
WriteCsv(old, frame) == ToCsv(frame)

(* ------------------------- the raw data served ------------------------- *)

MidnightUtc ==
    <<" ", "0", "0", ":", "0", "0", ":", "0", "0", "+", "0", "0", ":", "0", "0">>

Date0725 == <<"2", "0", "2", "5", "-", "0", "7", "-", "2", "5">>

\* The same calendar day as Date0725, month written without its zero.
Date725 == <<"2", "0", "2", "5", "-", "7", "-", "2", "5">>

Date0726 == <<"2", "0", "2", "5", "-", "0", "7", "-", "2", "6">>

DateUnknown == <<"u", "n", "k", "n", "o", "w", "n">>

Publish0704 == <<"2", "0", "2", "5", "-", "0", "7", "-", "0", "4">> \o MidnightUtc

NoonUtc ==
    <<" ", "1", "2", ":", "0", "0", ":", "0", "0", "+", "0", "0", ":", "0", "0">>

\* Publish times after the snapshot day 2025-07-25 has begun.
Publish0725Noon == Date0725 \o NoonUtc

Publish0726 == Date0726 \o MidnightUtc

Publish0726Noon == Date0726 \o NoonUtc

TitleGood == <<" ", "g", "o", "o", "d", "?", " ">>

TitleBlank == <<" ", " ">>

ChannelName == <<"C", "h", " ">>

\* The 18 columns of the raw CSV (df.info() of the load cell).
RawColumns ==
    {"title", "channel_name", "daily_rank", "daily_movement", "weekly_movement",
     "snapshot_date", "country", "view_count", "like_count", "comment_count",
     "description", "thumbnail_url", "video_id", "channel_id", "video_tags",
     "kind", "publish_date", "langauge"}

\* A raw row that passes every rule; the columns the notebook never reads
\* (movements, urls, tags, kind, language) carry no value here.
BaseRow ==
    [title |-> Some(TitleGood), channel_name |-> Some(ChannelName),
     daily_rank |-> 1, snapshot_date |-> Some(Date0725), country |-> Some("US"),
     view_count |-> Some(2), like_count |-> Some(1), comment_count |-> Some(1),
     description |-> NaN, video_id |-> Some("abc123"),
     publish_date |-> Some(Publish0704)]

VideoIds == {Some("abc123"), Some("xyz789")}

\* Rows that differ in the duplicate key and in daily_rank.
KeyRows ==
    {[BaseRow EXCEPT !.snapshot_date = Some(d), !.daily_rank = k] :
        d \in {Date0725, Date725, DateUnknown}, k \in {1, 2}}
    \cup {[BaseRow EXCEPT !.video_id = v, !.snapshot_date = Some(d)] :
        v \in VideoIds, d \in {Date0725, Date725, DateUnknown}}

\* Rows with at most one defect in a required field.
RequiredRows ==
    {[BaseRow EXCEPT !.title = t] : t \in {NaN, Some(TitleBlank)}}
    \cup {[BaseRow EXCEPT !.country = c] : c \in {NaN}}
    \cup {[BaseRow EXCEPT !.view_count = n] : n \in {NaN}}
    \cup {[BaseRow EXCEPT !.video_id = v, !.country = c] :
        v \in VideoIds, c \in {Some("US"), Some("ZW")}}
    \cup {[BaseRow EXCEPT !.video_id = v, !.view_count = n] :
        v \in VideoIds, n \in {Some(0)}}

\* Rows that differ in the three counters: every like and comment count
\* over a row with views, and rows without views.
CountRows ==
    {[BaseRow EXCEPT !.like_count = l, !.comment_count = c] :
        l \in {NaN, Some(0), Some(1), Some(3)}, c \in {Some(0), Some(1)}}
    \cup {[BaseRow EXCEPT !.view_count = Some(0), !.like_count = l] :
        l \in {Some(0), Some(1)}}

\* Rows that differ in the publish time, before and after the snapshot.
PublishRows ==
    {[BaseRow EXCEPT !.publish_date = Some(t)] :
        t \in {Publish0704, Publish0725Noon, Publish0726, Publish0726Noon}}
    \cup {[BaseRow EXCEPT !.video_id = v] : v \in VideoIds}

Families == {KeyRows, RequiredRows, CountRows, PublishRows}

\* Headers other than the usual one: the language column missing, the
\* language column already spelled right, the video_id column missing.
DriftedHeaders ==
    {RawColumns \ {"langauge"},
     (RawColumns \ {"langauge"}) \cup {"language"},
     RawColumns \ {"video_id"}}

\* Valid rows to serve under a drifted header.
SchemaRows == {[BaseRow EXCEPT !.video_id = v] : v \in VideoIds}

\* A row as a file with the columns cols holds it.
Project(r, cols) == [c \in (DOMAIN r) \cap cols |-> r[c]]

Tables(rows) == UNION {[1..n -> rows] : n \in 1..MaxRows}

\* The row a new dataset version adds on top: the next day's snapshot.
NextDayRow(version) ==
    [BaseRow EXCEPT !.snapshot_date = Some(Date0726), !.daily_rank = version]

(* ------------------------------- state -------------------------------- *)

VARIABLES
    remote,        \* the dataset as the publisher serves it now
    dataset,       \* what dataset_path holds: the version last downloaded
    rawDir,        \* the files of data/raw/
    processedDir,  \* the files of processed/
    df,            \* the DataFrame of the running notebook
    columns,       \* df.columns
    printed,       \* what the run has printed so far
    pc,            \* the statement the run has reached
    outSource      \* the raw rows the run that wrote the export had loaded

vars == <<remote, dataset, rawDir, processedDir, df, columns, printed, pc, outSource>>

RawName == "trending_yt_videos_113_countries.csv"

EnrichedName == "trending_youtube_enriched.csv"

NoDataset == [version |-> 0, columns |-> {}, rows |-> <<>>]

Exists(dir, name) == \E f \in dir : f.name = name

File(dir, name) == CHOOSE f \in dir : f.name = name

RawFile == File(rawDir, RawName)

OutFile == File(processedDir, EnrichedName)

Say(msg, n, m) == Append(printed, [msg |-> msg, rows |-> n, cols |-> m])

\* Nothing has run yet: no download, no files, no DataFrame.
Idle ==
    /\ dataset = NoDataset
    /\ rawDir = {}
    /\ processedDir = {}
    /\ df = <<>>
    /\ columns = {}
    /\ printed = <<>>
    /\ pc = "start"
    /\ outSource = NaN

InitFrom(rows) ==
    /\ remote \in {[version |-> 1, columns |-> RawColumns, rows |-> t] : t \in Tables(rows)}
    /\ Idle

\* The publisher serves a table under one of the drifted headers.
InitDrifted ==
    /\ remote \in {[version |-> 1, columns |-> h,
                    rows |-> [i \in 1..Len(t) |-> Project(t[i], h)]] :
                      h \in DriftedHeaders, t \in Tables(SchemaRows)}
    /\ Idle

Init == (\E rows \in Families : InitFrom(rows)) \/ InitDrifted

(* ------------------------- the notebook's cells ------------------------ *)

\* Cell 465b39cc: imports, chdir to the project root.
Setup ==
    /\ pc = "start"
    /\ pc' = "setup"
    /\ printed' = Say("Working directory set to", 0, 0)
    /\ UNCHANGED <<remote, dataset, rawDir, processedDir, df, columns, outSource>>

\* Cell 6b41ddff: kagglehub.dataset_download fetches the latest version.
Download ==
    /\ pc = "setup"
    /\ dataset' = remote
    /\ pc' = "downloaded"
    /\ printed' = Say("Dataset downloaded to", 0, 0)
    /\ UNCHANGED <<remote, rawDir, processedDir, df, columns, outSource>>

\* if not os.path.exists(dst_file): shutil.copy2(src_file, dst_file)
CopyIfAbsent(dir, src) ==
    IF Exists(dir, RawName) THEN dir
    ELSE dir \cup {[name |-> RawName, columns |-> src.columns, rows |-> src.rows]}

\* Cell 126f509d: data/raw/ gets the downloaded CSV unless it has one.
Organize ==
    /\ pc = "downloaded"
    /\ rawDir' = CopyIfAbsent(rawDir, dataset)
    /\ printed' = IF Exists(rawDir, RawName)
                  THEN Say("File already exists in", 0, 0)
                  ELSE Say("Copied file to", 0, 0)
    /\ pc' = "organized"
    /\ UNCHANGED <<remote, dataset, processedDir, df, columns, outSource>>

\* Cell 329ff57d: df = pd.read_csv(csv_file); print the shape.
Load ==
    /\ pc = "organized"
    /\ df' = ReadCsv(RawFile)
    /\ columns' = RawFile.columns
    /\ printed' = Say("Dataset shape", Len(RawFile.rows), Cardinality(RawFile.columns))
    /\ pc' = "loaded"
    /\ UNCHANGED <<remote, dataset, rawDir, processedDir, outSource>>

\* One statement that rewrites df in place.  It reads the columns in needs:
\* with all of them in df it leaves frame and the columns cols and prints
\* nothing; with one absent pandas raises a KeyError naming the absent
\* columns, which ends the run with df as it was.
Statement(from, to, needs, frame, cols) ==
    /\ pc = from
    /\ IF needs \subseteq columns
       THEN /\ df' = frame
            /\ columns' = cols
            /\ printed' = printed
            /\ pc' = to
       ELSE /\ df' = df
            /\ columns' = columns
            /\ printed' = Append(printed, [msg |-> "KeyError", missing |-> needs \ columns])
            /\ pc' = "aborted"
    /\ UNCHANGED <<remote, dataset, rawDir, processedDir, outSource>>

KeyColumns == {"video_id", "snapshot_date"}

StrippedColumns == {"title", "description", "channel_name"}

DateColumns == {"snapshot_date", "publish_date"}

CountColumns == {"like_count", "comment_count", "view_count"}

\* Cell 950ee120, statement by statement.
DropExactDuplicates ==
    Statement("loaded", "deduped_exact", {}, DropDuplicates(df), columns)

DropKeyDuplicates ==
    Statement("deduped_exact", "deduped", KeyColumns, DropDuplicatesSubset(df), columns)

DropMissingRequired ==
    Statement("deduped", "required", RequiredColumns, DropnaRequired(df), columns)

RenameTypo ==
    Statement("required", "renamed", {}, df, RenameColumns(columns))

StripText ==
    Statement("renamed", "cleaned", StrippedColumns,
              [i \in 1..Len(df) |-> StripRow(df[i])], columns)

\* Cell 806e9936.
ParseDates ==
    Statement("cleaned", "parsed", DateColumns,
              [i \in 1..Len(df) |-> ParseRow(df[i])], columns)

DropUnparseable ==
    Statement("parsed", "dated", DateColumns, DropnaDates(df), columns)

\* Cell 6d36dfcf.
AddTitleFeatures ==
    Statement("dated", "titled", {"title"},
              [i \in 1..Len(df) |-> TitleFeatures(df[i])], columns \cup TitleColumns)

\* Cell bc0559cd, statement by statement.
ReplaceZeroCounts ==
    Statement("titled", "replaced", CountColumns,
              [i \in 1..Len(df) |-> ReplaceZeros(df[i])], columns)

AddRatios ==
    Statement("replaced", "ratios", CountColumns,
              [i \in 1..Len(df) |-> Ratios(df[i])], columns \cup RatioColumns)

DropMissingViews ==
    Statement("ratios", "engaged", {"view_count"}, DropnaViews(df), columns)

\* Cell e9ab1927.
AddTemporalFeatures ==
    Statement("engaged", "featured", DateColumns,
              [i \in 1..Len(df) |-> TemporalFeatures(df[i])],
              columns \cup TemporalColumns)

\* Cell 6cade811: makedirs("processed"), df.to_csv(output_path_full), print.
\* It is the only write into processed/.
Export ==
    /\ pc = "featured"
    /\ processedDir' =
           {f \in processedDir : f.name # EnrichedName}
               \cup {[name |-> EnrichedName, columns |-> columns,
                      rows |-> WriteCsv(IF Exists(processedDir, EnrichedName)
                                        THEN OutFile.rows ELSE NoRows, df)]}
    /\ outSource' = Some(RawFile.rows)
    /\ printed' = Say("Exported full enriched dataset to", 0, 0)
    /\ pc' = "exported"
    /\ UNCHANGED <<remote, dataset, rawDir, df, columns>>

\* The same cell when the write breaks off (disk full, I/O error): to_csv has
\* opened the path with mode "w" and written the header and the first k
\* rows; the exception ends the run, the path keeps what was written.
ExportFails ==
    /\ pc = "featured"
    /\ \E k \in 0..(Len(df) - 1) :
           /\ processedDir' =
                  {f \in processedDir : f.name # EnrichedName}
                      \cup {[name |-> EnrichedName, columns |-> columns,
                             rows |-> SubSeq(ToCsv(df), 1, k)]}
           /\ printed' = Say("OSError", k, 0)
    /\ outSource' = NaN
    /\ pc' = "aborted"
    /\ UNCHANGED <<remote, dataset, rawDir, df, columns>>

NullCounts(rows) ==
    [c \in {"title", "description", "like_count", "comment_count", "like_ratio",
            "comment_ratio", "publish_date"} |->
        Cardinality({i \in 1..Len(rows) : IsNa(rows[i][c])})]

\* Cell b5d3fd34: reload the export, print its shape and its null counts.
Verify ==
    /\ pc = "exported"
    /\ printed' = Append(Say("Full dataset shape", Len(OutFile.rows),
                             Cardinality(OutFile.columns)),
                         [msg |-> "Missing values in full dataset",
                          nulls |-> NullCounts(OutFile.rows)])
    /\ pc' = "verified"
    /\ UNCHANGED <<remote, dataset, rawDir, processedDir, df, columns, outSource>>

(* ------------------------- between two runs --------------------------- *)

\* The notebook is run again from the top in a fresh kernel, after a run
\* that finished; the files stay.  A run that an exception ended is final
\* here: what follows it is the user's repair, not a step of the notebook.
Rerun ==
    /\ pc = "verified"
    /\ pc' = "start"
    /\ df' = <<>>
    /\ columns' = {}
    /\ printed' = <<>>
    /\ UNCHANGED <<remote, dataset, rawDir, processedDir, outSource>>

\* The publisher releases the next daily version.  A release during a run is
\* seen by no statement but the next run's download, so releases are taken
\* between runs.
RemoteUpdate ==
    /\ pc = "verified"
    /\ remote.version < MaxVersion
    /\ remote' = [remote EXCEPT !.version = @ + 1,
                                !.rows = <<Project(NextDayRow(remote.version + 1),
                                                   remote.columns)>> \o @]
    /\ UNCHANGED <<dataset, rawDir, processedDir, df, columns, printed, pc, outSource>>

Next ==
    \/ Setup
    \/ Download
    \/ Organize
    \/ Load
    \/ DropExactDuplicates
    \/ DropKeyDuplicates
    \/ DropMissingRequired
    \/ RenameTypo
    \/ StripText
    \/ ParseDates
    \/ DropUnparseable
    \/ AddTitleFeatures
    \/ ReplaceZeroCounts
    \/ AddRatios
    \/ DropMissingViews
    \/ AddTemporalFeatures
    \/ Export
    \/ ExportFails
    \/ Verify
    \/ Rerun
    \/ RemoteUpdate

Spec == Init /\ [][Next]_vars

(* ------------------------------ properties ---------------------------- *)

HasOutput == Exists(processedDir, EnrichedName)

\* The statements after which this run's export is on disk.
Exported == pc \in {"exported", "verified"}

\* The raw row a row of df came from: read_csv numbered the rows, and no
\* statement relabels them.
RawOf(r) == RawFile.rows[r.index]

OutputKey(r) == <<r.video_id, r.snapshot_date>>

\* C1: no two rows of the exported row-level table share the pair
\* (video_id, snapshot_date), snapshot_date being the parsed value written out.
C1_OutputKeysUnique ==
    HasOutput =>
        \A i, j \in 1..Len(OutFile.rows) :
            i # j => OutputKey(OutFile.rows[i]) # OutputKey(OutFile.rows[j])

\* C2: every row of the exported table has a title, a country and a
\* view_count, and the title is not the empty string.
C2_RequiredFieldsPresent ==
    HasOutput =>
        \A k \in 1..Len(OutFile.rows) :
            LET r == OutFile.rows[k] IN
            /\ ~IsNa(r.title)
            /\ r.title # Some(<<>>)
            /\ ~IsNa(r.country)
            /\ ~IsNa(r.view_count)

\* The raw rows that are the first, in input order, with their key.
FirstOfKey ==
    {i \in 1..Len(RawFile.rows) :
        \A j \in 1..(i - 1) : SubsetKey(RawFile.rows[j]) # SubsetKey(RawFile.rows[i])}

\* C3: after the deduplication step, of the input rows that share one
\* (video_id, snapshot_date) exactly the first in input order is left,
\* unchanged and in input order, whatever the other columns hold.
C3_DedupKeepsFirst ==
    pc = "deduped" =>
        /\ {df[k].index : k \in 1..Len(df)} = FirstOfKey
        /\ \A k \in 1..Len(df) : Unindexed(df[k]) = RawOf(df[k])
        /\ \A k \in 1..(Len(df) - 1) : df[k].index < df[k + 1].index

\* Two input rows share a key and differ in daily_rank; the first stayed,
\* the second went.
C3_Witness ==
    /\ pc = "deduped"
    /\ \E i, j \in 1..Len(RawFile.rows) :
           /\ i < j
           /\ SubsetKey(RawFile.rows[i]) = SubsetKey(RawFile.rows[j])
           /\ RawFile.rows[i].daily_rank # RawFile.rows[j].daily_rank
           /\ \E k \in 1..Len(df) : df[k].index = i
           /\ \A k \in 1..Len(df) : df[k].index # j

NoViews == {NaN, Some(0)}

\* C4: an input row whose view_count is 0 or null is in no output, and no
\* output row has view_count 0 (or none).
C4_ZeroViewsDropped ==
    /\ pc \in {"engaged", "featured", "exported", "verified"} =>
           \A k \in 1..Len(df) : RawOf(df[k]).view_count \notin NoViews
    /\ Exported => Len(OutFile.rows) = Len(df)
    /\ HasOutput =>
           \A k \in 1..Len(OutFile.rows) : OutFile.rows[k].view_count \notin NoViews

\* An input row with a title, likes and comments but view_count 0 was the
\* first of its key, and the export written without it is not empty.
C4_Witness ==
    /\ pc = "exported"
    /\ Len(OutFile.rows) > 0
    /\ \E i \in FirstOfKey :
           /\ RawFile.rows[i].view_count = Some(0)
           /\ RawFile.rows[i].title = Some(TitleGood)
           /\ RawFile.rows[i].like_count = Some(1)
           /\ \A k \in 1..Len(df) : df[k].index # i

RatioOf(count, views) == Some([num |-> Val(count), den |-> Val(views)])

\* C5: in every output row like_ratio is defined exactly when the raw
\* like_count is present and nonzero, and is then like_count / view_count;
\* likewise comment_ratio with comment_count.
C5_RatioDefinedIffCounted ==
    Exported =>
        /\ Len(OutFile.rows) = Len(df)
        /\ \A k \in 1..Len(df) :
               LET raw == RawOf(df[k])
                   out == OutFile.rows[k]
               IN /\ ~IsNa(out.like_ratio) <=> raw.like_count \notin {NaN, Some(0)}
                  /\ ~IsNa(out.like_ratio) =>
                         out.like_ratio = RatioOf(raw.like_count, raw.view_count)
                  /\ ~IsNa(out.comment_ratio) <=> raw.comment_count \notin {NaN, Some(0)}
                  /\ ~IsNa(out.comment_ratio) =>
                         out.comment_ratio = RatioOf(raw.comment_count, raw.view_count)

\* A row with like_count 0 and views is exported, its like_ratio undefined
\* and its comment_ratio defined.
C5_Witness ==
    /\ pc = "exported"
    /\ \E k \in 1..Len(df) :
           /\ RawOf(df[k]).like_count = Some(0)
           /\ RawOf(df[k]).view_count = Some(2)
           /\ IsNa(OutFile.rows[k].like_ratio)
           /\ OutFile.rows[k].comment_ratio = Some([num |-> 1, den |-> 2])

\* C6: wherever like_ratio is defined in the output, 0 <= like_ratio <= 1.
C6_LikeRatioAtMostOne ==
    HasOutput =>
        \A k \in 1..Len(OutFile.rows) :
            LET q == OutFile.rows[k].like_ratio IN
            ~IsNa(q) => 0 <= Val(q).num /\ Val(q).num <= Val(q).den

\* C6 as amended: wherever like_ratio is defined in the output it is above 0,
\* and it is at most 1 exactly when the raw like_count is at most the raw
\* view_count: nothing clamps it.
C6_LikeRatioPositiveUnclamped ==
    Exported =>
        /\ Len(OutFile.rows) = Len(df)
        /\ \A k \in 1..Len(df) :
               LET raw == RawOf(df[k])
                   q == OutFile.rows[k].like_ratio
               IN ~IsNa(q) =>
                      /\ Val(q).num > 0
                      /\ Val(q).den > 0
                      /\ Val(q).num <= Val(q).den
                             <=> Val(raw.like_count) <= Val(raw.view_count)

\* An exported row has more likes than views and a like_ratio above 1.
C6_Witness ==
    /\ pc = "exported"
    /\ \E k \in 1..Len(df) :
           /\ RawOf(df[k]).like_count = Some(3)
           /\ RawOf(df[k]).view_count = Some(2)
           /\ OutFile.rows[k].like_ratio = Some([num |-> 3, den |-> 2])

OutputCountries == {OutFile.rows[k].country : k \in 1..Len(OutFile.rows)} \ {NaN}

\* C7: the export leaves two tables in processed/: the row-level table and a
\* country table with one row per country of the row-level table, whose
\* count is the number of row-level rows of that country.
C7_AggregateTableExported ==
    Exported =>
        \E f \in processedDir :
            /\ f.name # EnrichedName
            /\ Len(f.rows) = Cardinality(OutputCountries)
            /\ {f.rows[i].country : i \in 1..Len(f.rows)} = OutputCountries
            /\ \A i \in 1..Len(f.rows) :
                   f.rows[i].count =
                       Cardinality({k \in 1..Len(OutFile.rows) :
                                       OutFile.rows[k].country = f.rows[i].country})

\* C8: a finished run has printed, rule by rule, how many rows each
\* rejection rule removed, and the counts add up to input rows - output rows.
C8_RejectionCountsReported ==
    pc = "verified" =>
        \E n \in 1..Len(printed) :
            /\ printed[n].msg = "Rows removed by rule"
            /\ printed[n].exact_duplicate + printed[n].duplicate_key
                   + printed[n].missing_required + printed[n].unparseable_date
                   + printed[n].missing_views
                   = Len(RawFile.rows) - Len(OutFile.rows)

\* C9: the table the load step reads is the version this run downloaded.
C9_LoadReadsDownloaded ==
    pc = "loaded" =>
        /\ RawFile.rows = dataset.rows
        /\ df = ReadCsv(dataset)

\* C10: a run that exports from the raw rows the previous export was made
\* from leaves the exported table as it was: same rows, same order, same
\* values, whatever the earlier run left behind.
C10_RerunReproducesOutput ==
    [][(/\ pc = "featured"
        /\ pc' = "exported"
        /\ HasOutput
        /\ outSource = Some(RawFile.rows))
           => File(processedDir', EnrichedName) = OutFile]_vars

\* A second run (it found data/raw/ filled) has exported a table with rows
\* over the export of the run before.
C10_Witness ==
    /\ pc = "exported"
    /\ outSource = Some(RawFile.rows)
    /\ Len(OutFile.rows) > 0
    /\ \E n \in 1..Len(printed) : printed[n].msg = "File already exists in"

\* Seconds from the publish time to the snapshot time of a parsed row.
SecondsSincePublish(r) ==
    (Val(r.snapshot_date).day - Val(r.publish_date).day) * 86400
        + (Val(r.snapshot_date).secs - Val(r.publish_date).secs)

\* The raw rows no rule rejects: first of their key, required fields
\* present, both dates readable, views above 0.
PassesEveryRule ==
    {i \in FirstOfKey :
        LET raw == RawFile.rows[i] IN
        /\ \A c \in RequiredColumns : ~IsNa(raw[c])
        /\ ~IsNa(ToDatetime(raw.snapshot_date))
        /\ ~IsNa(ToDatetimeUtc(raw.publish_date))
        /\ raw.view_count \notin NoViews}

PublishedAfterSnapshot(raw) ==
    SecondsSincePublish([snapshot_date |-> ToDatetime(raw.snapshot_date),
                         publish_date |-> ToDatetimeUtc(raw.publish_date)]) < 0

\* C11: a row published after its snapshot that passes every other rule is
\* in the output, and its days_since_publish is the negative whole number of
\* days of snapshot - publish (the floor of the difference).
C11_LatePublishKeptNegative ==
    Exported =>
        /\ Len(OutFile.rows) = Len(df)
        /\ \A i \in PassesEveryRule :
               PublishedAfterSnapshot(RawFile.rows[i]) =>
                   \E k \in 1..Len(df) : df[k].index = i
        /\ \A k \in 1..Len(df) :
               LET days == OutFile.rows[k].days_since_publish
                   secs == SecondsSincePublish(df[k])
               IN secs < 0 =>
                      /\ days < 0
                      /\ days * 86400 <= secs
                      /\ secs < (days + 1) * 86400

\* A row published a day and a half after its snapshot is exported with
\* days_since_publish = -2.
C11_Witness ==
    /\ pc = "exported"
    /\ \E k \in 1..Len(df) :
           /\ RawOf(df[k]).publish_date = Some(Publish0726Noon)
           /\ RawOf(df[k]).snapshot_date = Some(Date0725)
           /\ OutFile.rows[k].days_since_publish = -2

\* C12: when the write of the row-level table breaks off, the run ends and
\* the path holds the complete file it held before, or no file.
C12_FailedWriteLeavesNoPartialFile ==
    [][(pc = "featured" /\ pc' = "aborted")
          => \/ processedDir' = processedDir
             \/ ~Exists(processedDir', EnrichedName)]_vars

\* The columns the pipeline expects, under their canonical names.
ExpectedColumns == RenameColumns(RawColumns)

\* The expected columns that the loaded table does not supply, even after
\* the typo mapping.
MissingColumns == ExpectedColumns \ RenameColumns(RawFile.columns)

\* C13: a run on a raw table that lacks an expected column (the typo mapping
\* not supplying it) ends with an error naming the column and exports
\* nothing: no run reaches the export with a column missing, and a run that
\* a missing column ended has printed that column's name.
C13_SchemaDriftAborts ==
    /\ Exported => MissingColumns = {}
    /\ (pc = "aborted" /\ printed[Len(printed)].msg = "KeyError") =>
           printed[Len(printed)].missing \subseteq MissingColumns

\* The raw rows that normalization leaves: first of their key, required
\* fields present, both dates readable.
Normalized ==
    {i \in FirstOfKey :
        LET raw == RawFile.rows[i] IN
        /\ \A c \in RequiredColumns : ~IsNa(raw[c])
        /\ ~IsNa(ToDatetime(raw.snapshot_date))
        /\ ~IsNa(ToDatetimeUtc(raw.publish_date))}

Indexes(frame) == {frame[k].index : k \in 1..Len(frame)}

\* C14: feature derivation returns one row for each normalized row: as many
\* rows leave the stage as entered it.
C14_FeatureStageKeepsEveryRow ==
    pc = "featured" => Len(df) = Cardinality(Normalized)

\* C14 as amended: the title, replacement, ratio and temporal statements
\* return one row for each row they receive, and the stage's closing
\* dropna(view_count) removes exactly the normalized rows whose view_count
\* is 0: the rows that leave the stage are the normalized rows with views.
C14_FeatureStageDropsOnlyZeroViews ==
    /\ pc \in {"dated", "titled", "replaced", "ratios"} =>
           /\ Indexes(df) = Normalized
           /\ Len(df) = Cardinality(Normalized)
    /\ pc \in {"engaged", "featured"} =>
           LET viewed == {i \in Normalized : RawFile.rows[i].view_count # Some(0)}
           IN /\ Indexes(df) = viewed
              /\ Len(df) = Cardinality(viewed)

\* The stage has ended with fewer rows than normalization left, and not none.
C14_Witness ==
    /\ pc = "featured"
    /\ Len(df) > 0
    /\ Cardinality(Normalized) > Len(df)

\* C15: only the first input row of a (video_id, snapshot_date) pair can
\* stand for it in the output: when a rule rejects that first row, the
\* output has no row of that pair, whatever later rows of the pair hold.
C15_RejectedFirstRowLeavesNoRow ==
    Exported =>
        /\ Len(OutFile.rows) = Len(df)
        /\ \A i \in FirstOfKey \ PassesEveryRule :
               \A k \in 1..Len(df) :
                   SubsetKey(RawOf(df[k])) # SubsetKey(RawFile.rows[i])

\* The first row of a pair had view_count 0, a later row of the pair passed
\* every filter, and the export holds no row of the pair.
C15_Witness ==
    /\ pc = "exported"
    /\ \E i, j \in 1..Len(RawFile.rows) :
           /\ i < j
           /\ i \in FirstOfKey
           /\ SubsetKey(RawFile.rows[i]) = SubsetKey(RawFile.rows[j])
           /\ RawFile.rows[i].view_count = Some(0)
           /\ RawFile.rows[j] = BaseRow
           /\ \A k \in 1..Len(df) :
                  SubsetKey(RawOf(df[k])) # SubsetKey(RawFile.rows[i])

====
